---------------------------- MODULE Spec2Model ----------------------------
(*
  The "simple" printer of etcdctl (etcdctl/ctlv3/command/printer_simple.go).

  Text is modelled byte by byte: a string is a sequence of byte values
  (0..255), a stream is a sequence of lines, and a line is the string written
  up to (not including) its terminating newline.  Every literal of the source
  is spelled out as its bytes, so that the raw and the hexadecimal rendering
  of a key are different sequences and a rule that prints the wrong one is
  seen to do so.
*)
EXTENDS Integers, Sequences, FiniteSets, TLC

VARIABLES isHex, valueOnly, stdout, stderr, log

vars == <<isHex, valueOnly, stdout, stderr, log>>

-----------------------------------------------------------------------------
(* Bounds of the model. *)

\* longest key of a permission entry, in bytes
MaxKeyLen == 2
\* most key/value entries in one Get or Del response
MaxKvs == 2
\* most sub-results in one transaction
MaxOps == 2
\* most events in one watch response
MaxEvents == 2
\* most permission entries in one role
MaxPerms == 2
\* most keys attached to one lease
MaxLeaseKeys == 2
\* most endpoints in one health batch
MaxEps == 2
\* most formatting calls in one run of SpecSeq
MaxCalls == 2

-----------------------------------------------------------------------------
(* Sequences and text. *)

RECURSIVE SeqsUpTo(_, _)
SeqsUpTo(S, n) ==
  IF n = 0 THEN {<<>>}
  ELSE LET shorter == SeqsUpTo(S, n - 1)
       IN  shorter \cup {Append(q, x) : q \in {r \in shorter : Len(r) = n - 1}, x \in S}

RECURSIVE Flatten(_)
Flatten(ss) == IF ss = <<>> THEN <<>> ELSE Head(ss) \o Flatten(Tail(ss))

\* fmt verb %d of a non-negative integer
RECURSIVE DecNat(_)
DecNat(n) == IF n < 10 THEN <<48 + n>> ELSE DecNat(n \div 10) \o <<48 + (n % 10)>>

\* fmt verb %d (and Println of an integer)
Dec(n) == IF n < 0 THEN <<45>> (* "-" *) \o DecNat(0 - n) ELSE DecNat(n)

\* one lower-case hexadecimal digit
HexDigit(d) == IF d < 10 THEN 48 + d ELSE 87 + d

RECURSIVE HexNat(_)
HexNat(n) == IF n < 16 THEN <<HexDigit(n)>> ELSE HexNat(n \div 16) \o <<HexDigit(n % 16)>>

PadLeft(s, w, c) == IF Len(s) >= w THEN s ELSE [i \in 1..(w - Len(s)) |-> c] \o s

\* fmt verb %016x
Hex016(n) == PadLeft(HexNat(n), 16, 48)

\* fmt verb %16x
Hex16(n) == PadLeft(HexNat(n), 16, 32)

\* fmt verb %v of a bool
BoolText(b) == IF b THEN <<116, 114, 117, 101>> (* "true" *) ELSE <<102, 97, 108, 115, 101>> (* "false" *)

\* strings.Join
RECURSIVE Join(_, _)
Join(ss, sep) ==
  IF ss = <<>> THEN <<>>
  ELSE IF Len(ss) = 1 THEN ss[1]
  ELSE ss[1] \o sep \o Join(Tail(ss), sep)

\* fmt verb %v of a []string: the elements between brackets, separated by spaces
SliceText(ss) == <<91>> (* "[" *) \o Join(ss, <<32>> (* " " *)) \o <<93>> (* "]" *)

-----------------------------------------------------------------------------
(* Key/Value Encoder. *)

\* hexadecimal digit pairs of the raw bytes, lower-case, no separators, no prefix
HexEncode(bs) == Flatten([i \in 1..Len(bs) |-> <<HexDigit(bs[i] \div 16), HexDigit(bs[i] % 16)>>])

\* the text of one key or value under the hex flag
encode(hex, bs) == IF hex THEN HexEncode(bs) ELSE bs

\* printKV(isHex, valueOnly, kv): a key line unless valueOnly, then a value line
printKV(hex, vo, kv) ==
  (IF vo THEN <<>> ELSE <<encode(hex, kv.key)>>) \o <<encode(hex, kv.value)>>

\* printKV over a sequence of entries, in order
printKVs(hex, vo, kvs) == Flatten([i \in 1..Len(kvs) |-> printKV(hex, vo, kvs[i])])

-----------------------------------------------------------------------------
(* Response Formatter: Del, Get, Put, Txn, Watch.  s is the printer, a record
   [isHex, valueOnly]; each operator is the sequence of lines the method
   writes to standard output. *)

Del(s, resp) == <<Dec(resp.Deleted)>> \o printKVs(s.isHex, s.valueOnly, resp.PrevKvs)

\* Get with the entries printed raw, whatever the hex flag
GetRaw(s, resp) == printKVs(FALSE, s.valueOnly, resp.Kvs)

Get(s, resp) == printKVs(s.isHex, s.valueOnly, resp.Kvs)

\* PrevKv is <<>> for nil and <<kv>> otherwise
Put(s, r) == <<<<79, 75>> (* "OK" *)>> \o printKVs(s.isHex, s.valueOnly, r.PrevKv)

\* the body of the loop of Txn for one sub-result r
TxnOp(s, r) ==
  <<<<>>>> \o
  CASE r.tag = "ResponseDeleteRange" -> Del(s, r.resp)
    [] r.tag = "ResponsePut" -> Put(s, r.resp)
    [] r.tag = "ResponseRange" -> Get(s, r.resp)
    [] OTHER -> <<<<117, 110, 101, 120, 112, 101, 99, 116, 101, 100, 32, 114, 101, 115, 112, 111, 110, 115, 101, 32>> (* "unexpected response " *) \o r.resp.text>>

\* Txn with the separator written between blocks only, not before the first
TxnSeparatorBetween(s, resp) ==
  LET body == Flatten([i \in 1..Len(resp.Responses) |-> TxnOp(s, resp.Responses[i])])
  IN  <<IF resp.Succeeded THEN <<83, 85, 67, 67, 69, 83, 83>> (* "SUCCESS" *) ELSE <<70, 65, 73, 76, 85, 82, 69>> (* "FAILURE" *)>> \o
      (IF body = <<>> THEN <<>> ELSE Tail(body))

\* Txn with the loop left at the first sub-result of an unexpected type
TxnStopsAtUnknown(s, resp) ==
  LET rs == resp.Responses
      bad == {i \in 1..Len(rs) :
                rs[i].tag \notin {"ResponseDeleteRange", "ResponsePut", "ResponseRange"}}
      n == IF bad = {} THEN Len(rs) ELSE CHOOSE i \in bad : \A j \in bad : i <= j
  IN  <<IF resp.Succeeded THEN <<83, 85, 67, 67, 69, 83, 83>> (* "SUCCESS" *) ELSE <<70, 65, 73, 76, 85, 82, 69>> (* "FAILURE" *)>> \o
      Flatten([i \in 1..n |-> TxnOp(s, rs[i])])

Txn(s, resp) ==
  <<IF resp.Succeeded THEN <<83, 85, 67, 67, 69, 83, 83>> (* "SUCCESS" *) ELSE <<70, 65, 73, 76, 85, 82, 69>> (* "FAILURE" *)>> \o
  Flatten([i \in 1..Len(resp.Responses) |-> TxnOp(s, resp.Responses[i])])

\* the body of the loop of Watch with the previous entry always printed with its key
WatchEventPrevKeyAlways(s, e) ==
  <<e.Type>> \o printKVs(s.isHex, FALSE, e.PrevKv) \o printKV(s.isHex, s.valueOnly, e.Kv)

\* the body of the loop of Watch for one event e
WatchEvent(s, e) ==
  <<e.Type>> \o printKVs(s.isHex, s.valueOnly, e.PrevKv) \o printKV(s.isHex, s.valueOnly, e.Kv)

Watch(s, resp) == Flatten([i \in 1..Len(resp.Events) |-> WatchEvent(s, resp.Events[i])])

-----------------------------------------------------------------------------
(* Response Formatter: leases, alarms, members, endpoints. *)

Grant(s, resp) ==
  <<<<108, 101, 97, 115, 101, 32>> (* "lease " *) \o Hex016(resp.ID) \o <<32, 103, 114, 97, 110, 116, 101, 100, 32, 119, 105, 116, 104, 32, 84, 84, 76, 40>> (* " granted with TTL(" *) \o Dec(resp.TTL) \o <<115, 41>> (* "s)" *)>>

Revoke(s, id) == <<<<108, 101, 97, 115, 101, 32>> (* "lease " *) \o Hex016(id) \o <<32, 114, 101, 118, 111, 107, 101, 100>> (* " revoked" *)>>

KeepAlive(s, resp) ==
  <<<<108, 101, 97, 115, 101, 32>> (* "lease " *) \o Hex016(resp.ID) \o <<32, 107, 101, 101, 112, 97, 108, 105, 118, 101, 100, 32, 119, 105, 116, 104, 32, 84, 84, 76, 40>> (* " keepalived with TTL(" *) \o Dec(resp.TTL) \o <<41>> (* ")" *)>>

\* TimeToLive with the test of the expired branch written with || for &&
TimeToLiveEitherExpired(s, resp, keys) ==
  IF resp.GrantedTTL = 0 \/ resp.TTL = -1
  THEN <<<<108, 101, 97, 115, 101, 32>> (* "lease " *) \o Hex016(resp.ID) \o <<32, 97, 108, 114, 101, 97, 100, 121, 32, 101, 120, 112, 105, 114, 101, 100>> (* " already expired" *)>>
  ELSE LET txt == <<108, 101, 97, 115, 101, 32>> (* "lease " *) \o Hex016(resp.ID) \o <<32, 103, 114, 97, 110, 116, 101, 100, 32, 119, 105, 116, 104, 32, 84, 84, 76, 40>> (* " granted with TTL(" *) \o
                  Dec(resp.GrantedTTL) \o <<115, 41, 44, 32, 114, 101, 109, 97, 105, 110, 105, 110, 103, 40>> (* "s), remaining(" *) \o Dec(resp.TTL) \o <<115, 41>> (* "s)" *)
       IN  <<IF keys THEN txt \o <<44, 32, 97, 116, 116, 97, 99, 104, 101, 100, 32, 107, 101, 121, 115, 40>> (* ", attached keys(" *) \o SliceText(resp.Keys) \o <<41>> (* ")" *) ELSE txt>>

\* TimeToLive with the attached keys rendered under the hex flag of the printer
TimeToLiveHexKeys(s, resp, keys) ==
  IF resp.GrantedTTL = 0 /\ resp.TTL = -1
  THEN <<<<108, 101, 97, 115, 101, 32>> (* "lease " *) \o Hex016(resp.ID) \o <<32, 97, 108, 114, 101, 97, 100, 121, 32, 101, 120, 112, 105, 114, 101, 100>> (* " already expired" *)>>
  ELSE LET txt == <<108, 101, 97, 115, 101, 32>> (* "lease " *) \o Hex016(resp.ID) \o <<32, 103, 114, 97, 110, 116, 101, 100, 32, 119, 105, 116, 104, 32, 84, 84, 76, 40>> (* " granted with TTL(" *) \o
                  Dec(resp.GrantedTTL) \o <<115, 41, 44, 32, 114, 101, 109, 97, 105, 110, 105, 110, 103, 40>> (* "s), remaining(" *) \o Dec(resp.TTL) \o <<115, 41>> (* "s)" *)
           ks == [i \in 1..Len(resp.Keys) |-> encode(s.isHex, resp.Keys[i])]
       IN  <<IF keys THEN txt \o <<44, 32, 97, 116, 116, 97, 99, 104, 101, 100, 32, 107, 101, 121, 115, 40>> (* ", attached keys(" *) \o SliceText(ks) \o <<41>> (* ")" *) ELSE txt>>

TimeToLive(s, resp, keys) ==
  IF resp.GrantedTTL = 0 /\ resp.TTL = -1
  THEN <<<<108, 101, 97, 115, 101, 32>> (* "lease " *) \o Hex016(resp.ID) \o <<32, 97, 108, 114, 101, 97, 100, 121, 32, 101, 120, 112, 105, 114, 101, 100>> (* " already expired" *)>>
  ELSE LET txt == <<108, 101, 97, 115, 101, 32>> (* "lease " *) \o Hex016(resp.ID) \o <<32, 103, 114, 97, 110, 116, 101, 100, 32, 119, 105, 116, 104, 32, 84, 84, 76, 40>> (* " granted with TTL(" *) \o
                  Dec(resp.GrantedTTL) \o <<115, 41, 44, 32, 114, 101, 109, 97, 105, 110, 105, 110, 103, 40>> (* "s), remaining(" *) \o Dec(resp.TTL) \o <<115, 41>> (* "s)" *)
           ks == [i \in 1..Len(resp.Keys) |-> resp.Keys[i]]
       IN  <<IF keys THEN txt \o <<44, 32, 97, 116, 116, 97, 99, 104, 101, 100, 32, 107, 101, 121, 115, 40>> (* ", attached keys(" *) \o SliceText(ks) \o <<41>> (* ")" *) ELSE txt>>

Leases(s, resp) ==
  <<<<102, 111, 117, 110, 100, 32>> (* "found " *) \o Dec(Len(resp.Leases)) \o <<32, 108, 101, 97, 115, 101, 115>> (* " leases" *)>> \o
  [i \in 1..Len(resp.Leases) |-> Hex016(resp.Leases[i])]

\* each alarm is printed with %+v; its text is part of the input
Alarm(s, resp) == [i \in 1..Len(resp.Alarms) |-> resp.Alarms[i]]

MemberAdd(s, r) ==
  LET asLearner == IF r.IsLearner THEN <<32, 97, 115, 32, 108, 101, 97, 114, 110, 101, 114, 32>> (* " as learner " *) ELSE <<32>> (* " " *)
  IN  <<<<77, 101, 109, 98, 101, 114, 32>> (* "Member " *) \o Hex16(r.ID) \o <<32, 97, 100, 100, 101, 100>> (* " added" *) \o asLearner \o <<116, 111, 32, 99, 108, 117, 115, 116, 101, 114, 32>> (* "to cluster " *) \o
        Hex16(r.ClusterId)>>

MemberRemove(s, id, r) ==
  <<<<77, 101, 109, 98, 101, 114, 32>> (* "Member " *) \o Hex16(id) \o <<32, 114, 101, 109, 111, 118, 101, 100, 32, 102, 114, 111, 109, 32, 99, 108, 117, 115, 116, 101, 114, 32>> (* " removed from cluster " *) \o Hex16(r.ClusterId)>>

MemberUpdate(s, id, r) ==
  <<<<77, 101, 109, 98, 101, 114, 32>> (* "Member " *) \o Hex16(id) \o <<32, 117, 112, 100, 97, 116, 101, 100, 32, 105, 110, 32, 99, 108, 117, 115, 116, 101, 114, 32>> (* " updated in cluster " *) \o Hex16(r.ClusterId)>>

MemberPromote(s, id, r) ==
  <<<<77, 101, 109, 98, 101, 114, 32>> (* "Member " *) \o Hex16(id) \o <<32, 112, 114, 111, 109, 111, 116, 101, 100, 32, 105, 110, 32, 99, 108, 117, 115, 116, 101, 114, 32>> (* " promoted in cluster " *) \o Hex16(r.ClusterId)>>

\* the rows of a table built by the table renderer, one line per row
RowLines(rows) == [i \in 1..Len(rows) |-> Join(rows[i], <<44, 32>> (* ", " *))]

MemberList(s, resp) == RowLines(resp.rows)

\* the line of one endpoint, on the stream it is written to
epHealthLine(h) ==
  IF h.Error = <<>>
  THEN [out |-> <<h.Ep \o <<32, 105, 115, 32, 104, 101, 97, 108, 116, 104, 121, 58, 32, 115, 117, 99, 99, 101, 115, 115, 102, 117, 108, 108, 121, 32, 99, 111, 109, 109, 105, 116, 116, 101, 100, 32, 112, 114, 111, 112, 111, 115, 97, 108, 58, 32, 116, 111, 111, 107, 32, 61, 32>> (* " is healthy: successfully committed proposal: took = " *) \o h.Took>>,
        err |-> <<>>]
  ELSE [out |-> <<>>,
        err |-> <<h.Ep \o <<32, 105, 115, 32, 117, 110, 104, 101, 97, 108, 116, 104, 121, 58, 32, 102, 97, 105, 108, 101, 100, 32, 116, 111, 32, 99, 111, 109, 109, 105, 116, 32, 112, 114, 111, 112, 111, 115, 97, 108, 58, 32>> (* " is unhealthy: failed to commit proposal: " *) \o h.Error>>]

\* EndpointHealth with the loop left at the first endpoint that reports an error
EndpointHealthStopsAtError(s, hs) ==
  LET bad == {i \in 1..Len(hs) : hs[i].Error # <<>>}
      n == IF bad = {} THEN Len(hs) ELSE CHOOSE i \in bad : \A j \in bad : i <= j
  IN  [out |-> Flatten([i \in 1..n |-> epHealthLine(hs[i]).out]),
       err |-> Flatten([i \in 1..n |-> epHealthLine(hs[i]).err])]

\* both streams: [out |-> lines on standard output, err |-> lines on standard error]
EndpointHealth(s, hs) ==
  [out |-> Flatten([i \in 1..Len(hs) |-> epHealthLine(hs[i]).out]),
   err |-> Flatten([i \in 1..Len(hs) |-> epHealthLine(hs[i]).err])]

EndpointStatus(s, statusList) == RowLines(statusList.rows)

EndpointHashKV(s, hashList) == RowLines(hashList.rows)

\* types.ID prints as hexadecimal without padding
MoveLeader(s, leader, target) ==
  <<<<76, 101, 97, 100, 101, 114, 115, 104, 105, 112, 32, 116, 114, 97, 110, 115, 102, 101, 114, 114, 101, 100, 32, 102, 114, 111, 109, 32>> (* "Leadership transferred from " *) \o HexNat(leader) \o <<32, 116, 111, 32>> (* " to " *) \o HexNat(target)>>

DowngradeValidate(s, r) == <<<<68, 111, 119, 110, 103, 114, 97, 100, 101, 32, 118, 97, 108, 105, 100, 97, 116, 101, 32, 115, 117, 99, 99, 101, 115, 115, 44, 32, 99, 108, 117, 115, 116, 101, 114, 32, 118, 101, 114, 115, 105, 111, 110, 32>> (* "Downgrade validate success, cluster version " *) \o r.Version>>

DowngradeEnable(s, r) == <<<<68, 111, 119, 110, 103, 114, 97, 100, 101, 32, 101, 110, 97, 98, 108, 101, 32, 115, 117, 99, 99, 101, 115, 115, 44, 32, 99, 108, 117, 115, 116, 101, 114, 32, 118, 101, 114, 115, 105, 111, 110, 32>> (* "Downgrade enable success, cluster version " *) \o r.Version>>

DowngradeCancel(s, r) == <<<<68, 111, 119, 110, 103, 114, 97, 100, 101, 32, 99, 97, 110, 99, 101, 108, 32, 115, 117, 99, 99, 101, 115, 115, 44, 32, 99, 108, 117, 115, 116, 101, 114, 32, 118, 101, 114, 115, 105, 111, 110, 32>> (* "Downgrade cancel success, cluster version " *) \o r.Version>>

-----------------------------------------------------------------------------
(* Response Formatter: roles, users, authentication; Permission Range
   Formatter. *)

rootRole == <<114, 111, 111, 116>> (* "root" *)

PermRead == "READ"
PermWrite == "WRITE"
PermReadWrite == "READWRITE"

\* the prefix successor of key: the last byte that is not 0xFF incremented and
\* everything after it dropped; empty when every byte is 0xFF
GetPrefixRangeEnd(key) ==
  LET low == {i \in 1..Len(key) : key[i] < 255}
  IN  IF low = {} THEN <<>>
      ELSE LET i == CHOOSE j \in low : \A k \in low : k <= j
           IN  SubSeq(key, 1, i - 1) \o <<key[i] + 1>>

RoleAdd(s, role) == <<<<82, 111, 108, 101, 32>> (* "Role " *) \o role \o <<32, 99, 114, 101, 97, 116, 101, 100>> (* " created" *)>>

\* printRange with the arguments of the prefix test swapped
printRangeSwapped(perm) ==
  LET sKey == perm.Key
      sRangeEnd == perm.RangeEnd
      range == IF sRangeEnd # <<0>>
               THEN <<9, 91>> (* "\t[" *) \o sKey \o <<44, 32>> (* ", " *) \o sRangeEnd \o <<41>> (* ")" *)
               ELSE <<9, 91>> (* "\t[" *) \o sKey \o <<44, 32, 60, 111, 112, 101, 110, 32, 101, 110, 100, 101, 100, 62>> (* ", <open ended>" *)
      prefix == IF GetPrefixRangeEnd(sRangeEnd) = sKey /\ Len(sKey) > 0
                THEN <<32, 40, 112, 114, 101, 102, 105, 120, 32>> (* " (prefix " *) \o sKey \o <<41>> (* ")" *)
                ELSE <<>>
  IN  range \o prefix

\* printRange with the closing parenthesis written after both branches
printRangeAlwaysClosed(perm) ==
  LET sKey == perm.Key
      sRangeEnd == perm.RangeEnd
      range == IF sRangeEnd # <<0>>
               THEN <<9, 91>> (* "\t[" *) \o sKey \o <<44, 32>> (* ", " *) \o sRangeEnd \o <<41>> (* ")" *)
               ELSE <<9, 91>> (* "\t[" *) \o sKey \o <<44, 32, 60, 111, 112, 101, 110, 32, 101, 110, 100, 101, 100, 62>> (* ", <open ended>" *) \o <<41>> (* ")" *)
      prefix == IF GetPrefixRangeEnd(sKey) = sRangeEnd /\ Len(sKey) > 0
                THEN <<32, 40, 112, 114, 101, 102, 105, 120, 32>> (* " (prefix " *) \o sKey \o <<41>> (* ")" *)
                ELSE <<>>
  IN  range \o prefix

\* the closure printRange of RoleGet: one line
printRange(perm) ==
  LET sKey == perm.Key
      sRangeEnd == perm.RangeEnd
      range == IF sRangeEnd # <<0>>
               THEN <<9, 91>> (* "\t[" *) \o sKey \o <<44, 32>> (* ", " *) \o sRangeEnd \o <<41>> (* ")" *)
               ELSE <<9, 91>> (* "\t[" *) \o sKey \o <<44, 32, 60, 111, 112, 101, 110, 32, 101, 110, 100, 101, 100, 62>> (* ", <open ended>" *)
      prefix == IF GetPrefixRangeEnd(sKey) = sRangeEnd /\ Len(sKey) > 0
                THEN <<32, 40, 112, 114, 101, 102, 105, 120, 32>> (* " (prefix " *) \o sKey \o <<41>> (* ")" *)
                ELSE <<>>
  IN  range \o prefix

\* the body of both loops of RoleGet for one entry that passed the kind filter
permLine(perm) ==
  IF Len(perm.RangeEnd) = 0 THEN <<9>> (* "\t" *) \o perm.Key ELSE printRange(perm)

\* the first loop of RoleGet
ReadLines(perms) ==
  LET keep == SelectSeq(perms, LAMBDA p : p.PermType = PermRead \/ p.PermType = PermReadWrite)
  IN  [i \in 1..Len(keep) |-> permLine(keep[i])]

\* the second loop with the filter of the first
WriteLinesReadFilter(perms) ==
  LET keep == SelectSeq(perms, LAMBDA p : p.PermType = PermRead \/ p.PermType = PermReadWrite)
  IN  [i \in 1..Len(keep) |-> permLine(keep[i])]

\* the second loop of RoleGet
WriteLines(perms) ==
  LET keep == SelectSeq(perms, LAMBDA p : p.PermType = PermWrite \/ p.PermType = PermReadWrite)
  IN  [i \in 1..Len(keep) |-> permLine(keep[i])]

\* r.Perm is a sequence; the nil slice is the empty sequence
RoleGet(s, role, r) ==
  <<<<82, 111, 108, 101, 32>> (* "Role " *) \o role>> \o
  IF rootRole = role /\ r.Perm = <<>>
  THEN <<<<75, 86, 32, 82, 101, 97, 100, 58>> (* "KV Read:" *), <<9, 91, 44, 32, 60, 111, 112, 101, 110, 32, 101, 110, 100, 101, 100, 62>> (* "\t[, <open ended>" *), <<75, 86, 32, 87, 114, 105, 116, 101, 58>> (* "KV Write:" *), <<9, 91, 44, 32, 60, 111, 112, 101, 110, 32, 101, 110, 100, 101, 100, 62>> (* "\t[, <open ended>" *)>>
  ELSE <<<<75, 86, 32, 82, 101, 97, 100, 58>> (* "KV Read:" *)>> \o ReadLines(r.Perm) \o <<<<75, 86, 32, 87, 114, 105, 116, 101, 58>> (* "KV Write:" *)>> \o WriteLines(r.Perm)

RoleList(s, r) == [i \in 1..Len(r.Roles) |-> r.Roles[i]]

RoleDelete(s, role) == <<<<82, 111, 108, 101, 32>> (* "Role " *) \o role \o <<32, 100, 101, 108, 101, 116, 101, 100>> (* " deleted" *)>>

RoleGrantPermission(s, role) == <<<<82, 111, 108, 101, 32>> (* "Role " *) \o role \o <<32, 117, 112, 100, 97, 116, 101, 100>> (* " updated" *)>>

RoleRevokePermission(s, role, key, end) ==
  IF Len(end) = 0
  THEN <<<<80, 101, 114, 109, 105, 115, 115, 105, 111, 110, 32, 111, 102, 32, 107, 101, 121, 32>> (* "Permission of key " *) \o key \o <<32, 105, 115, 32, 114, 101, 118, 111, 107, 101, 100, 32, 102, 114, 111, 109, 32, 114, 111, 108, 101, 32>> (* " is revoked from role " *) \o role>>
  ELSE IF end # <<0>>
  THEN <<<<80, 101, 114, 109, 105, 115, 115, 105, 111, 110, 32, 111, 102, 32, 114, 97, 110, 103, 101, 32, 91>> (* "Permission of range [" *) \o key \o <<44, 32>> (* ", " *) \o end \o <<41, 32, 105, 115, 32, 114, 101, 118, 111, 107, 101, 100, 32, 102, 114, 111, 109, 32, 114, 111, 108, 101, 32>> (* ") is revoked from role " *) \o role>>
  ELSE <<<<80, 101, 114, 109, 105, 115, 115, 105, 111, 110, 32, 111, 102, 32, 114, 97, 110, 103, 101, 32, 91>> (* "Permission of range [" *) \o key \o <<44, 32, 60, 111, 112, 101, 110, 32, 101, 110, 100, 101, 100, 62, 32, 105, 115, 32, 114, 101, 118, 111, 107, 101, 100, 32, 102, 114, 111, 109, 32, 114, 111, 108, 101, 32>> (* ", <open ended> is revoked from role " *) \o role>>

UserAdd(s, name) == <<<<85, 115, 101, 114, 32>> (* "User " *) \o name \o <<32, 99, 114, 101, 97, 116, 101, 100>> (* " created" *)>>

UserGet(s, name, r) ==
  <<<<85, 115, 101, 114, 58, 32>> (* "User: " *) \o name,
    <<82, 111, 108, 101, 115, 58>> (* "Roles:" *) \o Flatten([i \in 1..Len(r.Roles) |-> <<32>> (* " " *) \o r.Roles[i]])>>

UserChangePassword(s) == <<<<80, 97, 115, 115, 119, 111, 114, 100, 32, 117, 112, 100, 97, 116, 101, 100>> (* "Password updated" *)>>

UserGrantRole(s, user, role) == <<<<82, 111, 108, 101, 32>> (* "Role " *) \o role \o <<32, 105, 115, 32, 103, 114, 97, 110, 116, 101, 100, 32, 116, 111, 32, 117, 115, 101, 114, 32>> (* " is granted to user " *) \o user>>

UserRevokeRole(s, user, role) == <<<<82, 111, 108, 101, 32>> (* "Role " *) \o role \o <<32, 105, 115, 32, 114, 101, 118, 111, 107, 101, 100, 32, 102, 114, 111, 109, 32, 117, 115, 101, 114, 32>> (* " is revoked from user " *) \o user>>

UserDelete(s, user) == <<<<85, 115, 101, 114, 32>> (* "User " *) \o user \o <<32, 100, 101, 108, 101, 116, 101, 100>> (* " deleted" *)>>

UserList(s, r) == [i \in 1..Len(r.Users) |-> r.Users[i]]

\* Println puts one space between its operands
AuthStatus(s, r) ==
  <<<<65, 117, 116, 104, 101, 110, 116, 105, 99, 97, 116, 105, 111, 110, 32, 83, 116, 97, 116, 117, 115, 58>> (* "Authentication Status:" *) \o <<32>> (* " " *) \o BoolText(r.Enabled),
    <<65, 117, 116, 104, 82, 101, 118, 105, 115, 105, 111, 110, 58>> (* "AuthRevision:" *) \o <<32>> (* " " *) \o Dec(r.AuthRevision)>>

-----------------------------------------------------------------------------
(* Inputs. *)

\* entries of the key-value store: a key equal to its value, a key with an
\* empty value, and a key and value that are not printable text
KvPool ==
  { [key |-> <<97>> (* "a" *), value |-> <<97>> (* "a" *)],
    [key |-> <<98>> (* "b" *), value |-> <<>>],
    [key |-> <<255, 97>>, value |-> <<0>>] }

\* an optional entry: nil or one entry
OptKv(pool) == {<<>>} \cup {<<kv>> : kv \in pool}

GetResponses(pool) == {[Kvs |-> kvs] : kvs \in SeqsUpTo(pool, MaxKvs)}

\* the server returns the previous entries only on request: none, or one per deleted key
DeleteResponses(pool) ==
  {r \in [Deleted : 0..MaxKvs, PrevKvs : SeqsUpTo(pool, MaxKvs)] :
     r.PrevKvs = <<>> \/ Len(r.PrevKvs) = r.Deleted}

PutResponses(pool) == {[PrevKv |-> p] : p \in OptKv(pool)}


\* a sub-result of a transaction; the tag is the dynamic type of r.Response, and a
\* sub-result of any other type carries the text %+v prints for it
SubResults(pool) ==
  {[tag |-> "ResponseDeleteRange", resp |-> r] : r \in DeleteResponses(pool)} \cup
  {[tag |-> "ResponsePut", resp |-> r] : r \in PutResponses(pool)} \cup
  {[tag |-> "ResponseRange", resp |-> r] : r \in GetResponses(pool)} \cup
  {[tag |-> "ResponseTxn", resp |-> [text |-> <<114, 101, 115, 112, 111, 110, 115, 101, 95, 116, 120, 110, 58, 60, 62>> (* "response_txn:<>" *)]]}

\* the entries of sub-results: one whose key equals its value, one with a raw byte
TxnKvPool ==
  { [key |-> <<97>> (* "a" *), value |-> <<97>> (* "a" *)],
    [key |-> <<255>>, value |-> <<118>> (* "v" *)] }

TxnResponses ==
  {[Succeeded |-> b, Responses |-> rs] :
     b \in BOOLEAN, rs \in SeqsUpTo(SubResults(TxnKvPool), MaxOps)}

WatchEvents ==
  [Type : {<<80, 85, 84>> (* "PUT" *), <<68, 69, 76, 69, 84, 69>> (* "DELETE" *)}, PrevKv : OptKv(KvPool), Kv : KvPool]

WatchResponses == {[Events |-> es] : es \in SeqsUpTo(WatchEvents, MaxEvents)}

LeaseIDs == {0, 26957}

\* granted and remaining TTL: both sides of each comparison of TimeToLive
LeaseSnapshots ==
  [ID : LeaseIDs, GrantedTTL : {0, 5}, TTL : {-1, 0, 3},
   Keys : SeqsUpTo({<<107>> (* "k" *), <<255>>}, MaxLeaseKeys)]

EpPool ==
  { [Ep |-> <<101, 49>> (* "e1" *), Took |-> <<49, 109, 115>> (* "1ms" *), Error |-> <<>>],
    [Ep |-> <<101, 50>> (* "e2" *), Took |-> <<49, 109, 115>> (* "1ms" *), Error |-> <<>>],
    [Ep |-> <<101, 50>> (* "e2" *), Took |-> <<50, 109, 115>> (* "2ms" *), Error |-> <<120>> (* "x" *)] }

HealthBatches == SeqsUpTo(EpPool, MaxEps)

RoleNames == {rootRole, <<114>> (* "r" *)}

\* keys of permission entries: with and without 0xFF bytes, the empty key included
PermKeys == SeqsUpTo({97, 255}, MaxKeyLen)

\* range ends: empty, the NUL sentinel, prefix successors and other bounds
PermRangeEnds == SeqsUpTo({0, 98, 255}, MaxKeyLen)

PermTypes == {PermRead, PermWrite, PermReadWrite}

\* every shape of permission entry, for roles of one entry
Permissions == [Key : PermKeys, RangeEnd : PermRangeEnds, PermType : PermTypes]

\* a single key, a prefix range and an open-ended range, of every kind, for
\* roles of several entries
PermPool ==
  [Key : {<<97>> (* "a" *)}, RangeEnd : {<<>>, <<98>> (* "b" *), <<0>>}, PermType : PermTypes]

RoleGetResponses ==
  {[Perm |-> ps] : ps \in SeqsUpTo(PermPool, MaxPerms) \cup {<<p>> : p \in Permissions}}

Names == {<<117>> (* "u" *), <<114, 111, 111, 116>> (* "root" *)}

NameLists == SeqsUpTo(Names, 2)

TableRows == {<<>>, <<<<<<56, 101, 57, 101, 48, 53, 99, 53, 50, 49, 54, 52, 54, 57, 52, 100>> (* "8e9e05c52164694d" *), <<115, 116, 97, 114, 116, 101, 100>> (* "started" *)>>>>,
              <<<<<<97>> (* "a" *)>>, <<<<98>> (* "b" *), <<99>> (* "c" *)>>>>}

Versions == {<<51, 46, 53, 46, 48>> (* "3.5.0" *)}

MemberIDs == {1, 26957}

AlarmTexts == {<<109, 101, 109, 98, 101, 114, 73, 68, 58, 49, 32, 97, 108, 97, 114, 109, 58, 78, 79, 83, 80, 65, 67, 69, 32>> (* "memberID:1 alarm:NOSPACE " *)}

(* Inputs of SpecSeq. *)

SeqKv == [key |-> <<97>> (* "a" *), value |-> <<255>>]

\* a failed transaction with a sub-result of an unexpected type
SeqTxnResponses ==
  {[Succeeded |-> FALSE,
    Responses |-> <<[tag |-> "ResponseTxn", resp |-> [text |-> <<114, 101, 115, 112, 111, 110, 115, 101, 95, 116, 120, 110, 58, 60, 62>> (* "response_txn:<>" *)]]>>]}

SeqTableRows == {<<<<<<56, 101, 57, 101, 48, 53, 99, 53, 50, 49, 54, 52, 54, 57, 52, 100>> (* "8e9e05c52164694d" *), <<115, 116, 97, 114, 116, 101, 100>> (* "started" *)>>>>}
-----------------------------------------------------------------------------
(* The state machine.  isHex and valueOnly are the fields of the printer, set
   when it is constructed; stdout and stderr are the lines written to the two
   streams; log is the sequence of calls made, kept to state the properties. *)

\* the receiver of the methods
s == [isHex |-> isHex, valueOnly |-> valueOnly]

Init ==
  /\ isHex \in BOOLEAN
  /\ valueOnly \in BOOLEAN
  /\ stdout = <<>>
  /\ stderr = <<>>
  /\ log = <<>>

\* what a method that only writes to standard output writes
Out(lines) == [out |-> lines, err |-> <<>>]

\* one call of a method: its lines are appended to the streams
Step(call, o) ==
  /\ stdout' = stdout \o o.out
  /\ stderr' = stderr \o o.err
  /\ log' = Append(log, call)
  /\ UNCHANGED <<isHex, valueOnly>>

(* One call of each method. *)

DelCall(resp) ==
  Step([kind |-> "Del", resp |-> resp],
       Out(Del(s, resp)))

GetCall(resp) ==
  Step([kind |-> "Get", resp |-> resp],
       Out(Get(s, resp)))

PutCall(r) ==
  Step([kind |-> "Put", resp |-> r],
       Out(Put(s, r)))

TxnCall(resp) ==
  Step([kind |-> "Txn", resp |-> resp],
       Out(Txn(s, resp)))

WatchCall(resp) ==
  Step([kind |-> "Watch", resp |-> resp],
       Out(Watch(s, resp)))

GrantCall(resp) ==
  Step([kind |-> "Grant", resp |-> resp],
       Out(Grant(s, resp)))

RevokeCall(id) ==
  Step([kind |-> "Revoke", id |-> id],
       Out(Revoke(s, id)))

KeepAliveCall(resp) ==
  Step([kind |-> "KeepAlive", resp |-> resp],
       Out(KeepAlive(s, resp)))

TimeToLiveCall(resp, keys) ==
  Step([kind |-> "TimeToLive", resp |-> resp, keys |-> keys],
       Out(TimeToLive(s, resp, keys)))

LeasesCall(resp) ==
  Step([kind |-> "Leases", resp |-> resp],
       Out(Leases(s, resp)))

AlarmCall(resp) ==
  Step([kind |-> "Alarm", resp |-> resp],
       Out(Alarm(s, resp)))

MemberAddCall(r) ==
  Step([kind |-> "MemberAdd", resp |-> r],
       Out(MemberAdd(s, r)))

MemberRemoveCall(id, r) ==
  Step([kind |-> "MemberRemove", id |-> id, resp |-> r],
       Out(MemberRemove(s, id, r)))

MemberUpdateCall(id, r) ==
  Step([kind |-> "MemberUpdate", id |-> id, resp |-> r],
       Out(MemberUpdate(s, id, r)))

MemberPromoteCall(id, r) ==
  Step([kind |-> "MemberPromote", id |-> id, resp |-> r],
       Out(MemberPromote(s, id, r)))

MemberListCall(resp) ==
  Step([kind |-> "MemberList", resp |-> resp],
       Out(MemberList(s, resp)))

EndpointHealthCall(hs) ==
  Step([kind |-> "EndpointHealth", hs |-> hs],
       EndpointHealth(s, hs))

EndpointStatusCall(statusList) ==
  Step([kind |-> "EndpointStatus", statusList |-> statusList],
       Out(EndpointStatus(s, statusList)))

EndpointHashKVCall(hashList) ==
  Step([kind |-> "EndpointHashKV", hashList |-> hashList],
       Out(EndpointHashKV(s, hashList)))

MoveLeaderCall(leader, target) ==
  Step([kind |-> "MoveLeader", leader |-> leader, target |-> target],
       Out(MoveLeader(s, leader, target)))

DowngradeValidateCall(r) ==
  Step([kind |-> "DowngradeValidate", resp |-> r],
       Out(DowngradeValidate(s, r)))

DowngradeEnableCall(r) ==
  Step([kind |-> "DowngradeEnable", resp |-> r],
       Out(DowngradeEnable(s, r)))

DowngradeCancelCall(r) ==
  Step([kind |-> "DowngradeCancel", resp |-> r],
       Out(DowngradeCancel(s, r)))

RoleAddCall(role) ==
  Step([kind |-> "RoleAdd", role |-> role],
       Out(RoleAdd(s, role)))

RoleGetCall(role, r) ==
  Step([kind |-> "RoleGet", role |-> role, resp |-> r],
       Out(RoleGet(s, role, r)))

RoleListCall(r) ==
  Step([kind |-> "RoleList", resp |-> r],
       Out(RoleList(s, r)))

RoleDeleteCall(role) ==
  Step([kind |-> "RoleDelete", role |-> role],
       Out(RoleDelete(s, role)))

RoleGrantPermissionCall(role) ==
  Step([kind |-> "RoleGrantPermission", role |-> role],
       Out(RoleGrantPermission(s, role)))

RoleRevokePermissionCall(role, key, end) ==
  Step([kind |-> "RoleRevokePermission", role |-> role, key |-> key, end |-> end],
       Out(RoleRevokePermission(s, role, key, end)))

UserAddCall(name) ==
  Step([kind |-> "UserAdd", name |-> name],
       Out(UserAdd(s, name)))

UserGetCall(name, r) ==
  Step([kind |-> "UserGet", name |-> name, resp |-> r],
       Out(UserGet(s, name, r)))

UserChangePasswordCall ==
  Step([kind |-> "UserChangePassword"],
       Out(UserChangePassword(s)))

UserGrantRoleCall(user, role) ==
  Step([kind |-> "UserGrantRole", user |-> user, role |-> role],
       Out(UserGrantRole(s, user, role)))

UserRevokeRoleCall(user, role) ==
  Step([kind |-> "UserRevokeRole", user |-> user, role |-> role],
       Out(UserRevokeRole(s, user, role)))

UserDeleteCall(user) ==
  Step([kind |-> "UserDelete", user |-> user],
       Out(UserDelete(s, user)))

UserListCall(r) ==
  Step([kind |-> "UserList", resp |-> r],
       Out(UserList(s, r)))

AuthStatusCall(r) ==
  Step([kind |-> "AuthStatus", resp |-> r],
       Out(AuthStatus(s, r)))

(* Spec: a run of the tool executes one command, which formats one response. *)

Ready == log = <<>>

DoDel ==
  Ready /\ \E resp \in DeleteResponses(KvPool) :
    DelCall(resp)

DoGet ==
  Ready /\ \E resp \in GetResponses(KvPool) :
    GetCall(resp)

DoPut ==
  Ready /\ \E r \in PutResponses(KvPool) :
    PutCall(r)

DoTxn ==
  Ready /\ \E resp \in TxnResponses :
    TxnCall(resp)

DoWatch ==
  Ready /\ \E resp \in WatchResponses :
    WatchCall(resp)

DoGrant ==
  Ready /\ \E resp \in [ID : LeaseIDs, TTL : {5}] :
    GrantCall(resp)

DoRevoke ==
  Ready /\ \E id \in LeaseIDs :
    RevokeCall(id)

DoKeepAlive ==
  Ready /\ \E resp \in [ID : LeaseIDs, TTL : {5}] :
    KeepAliveCall(resp)

DoTimeToLive ==
  Ready /\ \E resp \in LeaseSnapshots, keys \in BOOLEAN :
    TimeToLiveCall(resp, keys)

DoLeases ==
  Ready /\ \E resp \in [Leases : SeqsUpTo(LeaseIDs, 2)] :
    LeasesCall(resp)

DoAlarm ==
  Ready /\ \E resp \in [Alarms : SeqsUpTo(AlarmTexts, 2)] :
    AlarmCall(resp)

DoMemberAdd ==
  Ready /\ \E r \in [ID : MemberIDs, IsLearner : BOOLEAN, ClusterId : MemberIDs] :
    MemberAddCall(r)

DoMemberRemove ==
  Ready /\ \E id \in MemberIDs, r \in [ClusterId : MemberIDs] :
    MemberRemoveCall(id, r)

DoMemberUpdate ==
  Ready /\ \E id \in MemberIDs, r \in [ClusterId : MemberIDs] :
    MemberUpdateCall(id, r)

DoMemberPromote ==
  Ready /\ \E id \in MemberIDs, r \in [ClusterId : MemberIDs] :
    MemberPromoteCall(id, r)

DoMemberList ==
  Ready /\ \E resp \in [rows : TableRows] :
    MemberListCall(resp)

DoEndpointHealth ==
  Ready /\ \E hs \in HealthBatches :
    EndpointHealthCall(hs)

DoEndpointStatus ==
  Ready /\ \E statusList \in [rows : TableRows] :
    EndpointStatusCall(statusList)

DoEndpointHashKV ==
  Ready /\ \E hashList \in [rows : TableRows] :
    EndpointHashKVCall(hashList)

DoMoveLeader ==
  Ready /\ \E leader \in MemberIDs, target \in MemberIDs :
    MoveLeaderCall(leader, target)

DoDowngradeValidate ==
  Ready /\ \E r \in [Version : Versions] :
    DowngradeValidateCall(r)

DoDowngradeEnable ==
  Ready /\ \E r \in [Version : Versions] :
    DowngradeEnableCall(r)

DoDowngradeCancel ==
  Ready /\ \E r \in [Version : Versions] :
    DowngradeCancelCall(r)

DoRoleAdd ==
  Ready /\ \E role \in RoleNames :
    RoleAddCall(role)

DoRoleGet ==
  Ready /\ \E role \in RoleNames, r \in RoleGetResponses :
    RoleGetCall(role, r)

DoRoleList ==
  Ready /\ \E r \in [Roles : NameLists] :
    RoleListCall(r)

DoRoleDelete ==
  Ready /\ \E role \in RoleNames :
    RoleDeleteCall(role)

DoRoleGrantPermission ==
  Ready /\ \E role \in RoleNames :
    RoleGrantPermissionCall(role)

DoRoleRevokePermission ==
  Ready /\ \E role \in RoleNames, key \in PermKeys, end \in PermRangeEnds :
    RoleRevokePermissionCall(role, key, end)

DoUserAdd ==
  Ready /\ \E name \in Names :
    UserAddCall(name)

DoUserGet ==
  Ready /\ \E name \in Names, r \in [Roles : NameLists] :
    UserGetCall(name, r)

DoUserChangePassword == Ready /\ UserChangePasswordCall

DoUserGrantRole ==
  Ready /\ \E user \in Names, role \in RoleNames :
    UserGrantRoleCall(user, role)

DoUserRevokeRole ==
  Ready /\ \E user \in Names, role \in RoleNames :
    UserRevokeRoleCall(user, role)

DoUserDelete ==
  Ready /\ \E user \in Names :
    UserDeleteCall(user)

DoUserList ==
  Ready /\ \E r \in [Users : NameLists] :
    UserListCall(r)

DoAuthStatus ==
  Ready /\ \E r \in [Enabled : BOOLEAN, AuthRevision : {1, 12}] :
    AuthStatusCall(r)

Next ==
  \/ DoDel \/ DoGet \/ DoPut \/ DoTxn
  \/ DoWatch \/ DoGrant \/ DoRevoke \/ DoKeepAlive
  \/ DoTimeToLive \/ DoLeases \/ DoAlarm \/ DoMemberAdd
  \/ DoMemberRemove \/ DoMemberUpdate \/ DoMemberPromote \/ DoMemberList
  \/ DoEndpointHealth \/ DoEndpointStatus \/ DoEndpointHashKV \/ DoMoveLeader
  \/ DoDowngradeValidate \/ DoDowngradeEnable \/ DoDowngradeCancel \/ DoRoleAdd
  \/ DoRoleGet \/ DoRoleList \/ DoRoleDelete \/ DoRoleGrantPermission
  \/ DoRoleRevokePermission \/ DoUserAdd \/ DoUserGet \/ DoUserChangePassword
  \/ DoUserGrantRole \/ DoUserRevokeRole \/ DoUserDelete \/ DoUserList
  \/ DoAuthStatus

Spec == Init /\ [][Next]_vars

(* SpecSeq: a sequence of at most MaxCalls calls on one printer: health checks
   of every batch, and one call of every other method. *)

More == Len(log) < MaxCalls

SeqEndpointHealth ==
  More /\ \E hs \in HealthBatches :
    EndpointHealthCall(hs)

SeqOther ==
  More /\
    \/ \E resp \in {[Deleted |-> 1, PrevKvs |-> <<SeqKv>>]} :
         DelCall(resp)
    \/ \E resp \in {[Kvs |-> <<SeqKv>>]} :
         GetCall(resp)
    \/ \E r \in {[PrevKv |-> <<SeqKv>>]} :
         PutCall(r)
    \/ \E resp \in SeqTxnResponses :
         TxnCall(resp)
    \/ \E resp \in {[Events |-> <<[Type |-> <<68, 69, 76, 69, 84, 69>> (* "DELETE" *), PrevKv |-> <<SeqKv>>, Kv |-> SeqKv]>>]} :
         WatchCall(resp)
    \/ \E resp \in [ID : {0}, TTL : {5}] :
         GrantCall(resp)
    \/ \E id \in {0} :
         RevokeCall(id)
    \/ \E resp \in [ID : {0}, TTL : {5}] :
         KeepAliveCall(resp)
    \/ \E resp \in [ID : {0}, GrantedTTL : {0}, TTL : {-1}, Keys : {<<>>}], keys \in {TRUE} :
         TimeToLiveCall(resp, keys)
    \/ \E resp \in [Leases : {<<0>>}] :
         LeasesCall(resp)
    \/ \E resp \in [Alarms : {<<a>> : a \in AlarmTexts}] :
         AlarmCall(resp)
    \/ \E r \in [ID : {1}, IsLearner : {TRUE}, ClusterId : {1}] :
         MemberAddCall(r)
    \/ \E id \in {1}, r \in [ClusterId : {1}] :
         MemberRemoveCall(id, r)
    \/ \E id \in {1}, r \in [ClusterId : {1}] :
         MemberUpdateCall(id, r)
    \/ \E id \in {1}, r \in [ClusterId : {1}] :
         MemberPromoteCall(id, r)
    \/ \E resp \in [rows : SeqTableRows] :
         MemberListCall(resp)
    \/ \E statusList \in [rows : SeqTableRows] :
         EndpointStatusCall(statusList)
    \/ \E hashList \in [rows : SeqTableRows] :
         EndpointHashKVCall(hashList)
    \/ \E leader \in {1}, target \in {26957} :
         MoveLeaderCall(leader, target)
    \/ \E r \in [Version : Versions] :
         DowngradeValidateCall(r)
    \/ \E r \in [Version : Versions] :
         DowngradeEnableCall(r)
    \/ \E r \in [Version : Versions] :
         DowngradeCancelCall(r)
    \/ \E role \in {rootRole} :
         RoleAddCall(role)
    \/ \E role \in {rootRole}, r \in {[Perm |-> <<>>]} :
         RoleGetCall(role, r)
    \/ \E r \in [Roles : {<<rootRole>>}] :
         RoleListCall(r)
    \/ \E role \in {rootRole} :
         RoleDeleteCall(role)
    \/ \E role \in {rootRole} :
         RoleGrantPermissionCall(role)
    \/ \E role \in {rootRole}, key \in {<<255>>}, end \in {<<0>>} :
         RoleRevokePermissionCall(role, key, end)
    \/ \E name \in {rootRole} :
         UserAddCall(name)
    \/ \E name \in {rootRole}, r \in [Roles : {<<rootRole>>}] :
         UserGetCall(name, r)
    \/ UserChangePasswordCall
    \/ \E user \in {rootRole}, role \in {rootRole} :
         UserGrantRoleCall(user, role)
    \/ \E user \in {rootRole}, role \in {rootRole} :
         UserRevokeRoleCall(user, role)
    \/ \E user \in {rootRole} :
         UserDeleteCall(user)
    \/ \E r \in [Users : {<<rootRole>>}] :
         UserListCall(r)
    \/ \E r \in [Enabled : {FALSE}, AuthRevision : {1}] :
         AuthStatusCall(r)

NextSeq == SeqEndpointHealth \/ SeqOther

SpecSeq == Init /\ [][NextSeq]_vars

-----------------------------------------------------------------------------
(* Properties.  Under Spec a run makes one call, so stdout and stderr are
   what that call wrote. *)

IsPrefix(p, t) == Len(p) <= Len(t) /\ SubSeq(t, 1, Len(p)) = p

IsSuffix(p, t) == Len(p) <= Len(t) /\ SubSeq(t, Len(t) - Len(p) + 1, Len(t)) = p

Contains(t, p) == \E i \in 0..(Len(t) - Len(p)) : SubSeq(t, i + 1, i + Len(p)) = p

\* the elements of t at the positions not in drop, in order
RemoveAt(t, drop) ==
  LET F[i \in 0..Len(t)] ==
        IF i = 0 THEN <<>>
        ELSE IF i \in drop THEN F[i - 1] ELSE Append(F[i - 1], t[i])
  IN  F[Len(t)]

\* the one call of the run is a call of method k
Called(k) == log # <<>> /\ log[1].kind = k

\* the lines the top-level rule writes for the payload of a sub-result
TopLevelLines(r) ==
  CASE r.tag = "ResponseDeleteRange" -> Del(s, r.resp)
    [] r.tag = "ResponsePut" -> Put(s, r.resp)
    [] r.tag = "ResponseRange" -> Get(s, r.resp)

Recognized(r) == r.tag \in {"ResponseDeleteRange", "ResponsePut", "ResponseRange"}

\* the number of lines of the block of a sub-result, its blank line excluded
BlockLen(r) == IF Recognized(r) THEN Len(TopLevelLines(r)) ELSE 1

\* the number of lines before the blank line of the i-th sub-result
RECURSIVE BlockStart(_, _)
BlockStart(rs, i) == IF i = 1 THEN 1 ELSE BlockStart(rs, i - 1) + 1 + BlockLen(rs[i - 1])

\* the i-th sub-result has its block in stdout: a blank line, then its lines
BlockAt(rs, i) ==
  LET at == BlockStart(rs, i)
  IN  /\ Len(stdout) >= at + 1 + BlockLen(rs[i])
      /\ stdout[at + 1] = <<>>
      /\ IF Recognized(rs[i])
         THEN SubSeq(stdout, at + 2, at + 1 + BlockLen(rs[i])) = TopLevelLines(rs[i])
         ELSE /\ IsPrefix(<<117, 110, 101, 120, 112, 101, 99, 116, 101, 100, 32, 114, 101, 115, 112, 111, 110, 115, 101, 32>> (* "unexpected response " *), stdout[at + 2])
              /\ IsSuffix(rs[i].resp.text, stdout[at + 2])

\* C1: Txn writes one line, SUCCESS when Succeeded and FAILURE otherwise, and
\* then for each sub-result, in the order of Responses, a blank line followed by
\* exactly the lines the top-level Del, Put or Get writes for its payload under
\* the same printer; no block is moved, merged or dropped.
C1_TxnBlocksInOrder ==
  Called("Txn") =>
    LET resp == log[1].resp
        rs == resp.Responses
    IN  /\ stdout # <<>>
        /\ stdout[1] = (IF resp.Succeeded THEN <<83, 85, 67, 67, 69, 83, 83>> (* "SUCCESS" *) ELSE <<70, 65, 73, 76, 85, 82, 69>> (* "FAILURE" *))
        /\ \A i \in 1..Len(rs) : Recognized(rs[i]) => BlockAt(rs, i)
        /\ Len(stdout) = BlockStart(rs, Len(rs) + 1)

\* a transaction of a Get with an entry followed by a Del with a previous entry
C1_Witness ==
  /\ Called("Txn")
  /\ Len(log[1].resp.Responses) = 2
  /\ log[1].resp.Responses[1].tag = "ResponseRange"
  /\ log[1].resp.Responses[1].resp.Kvs # <<>>
  /\ log[1].resp.Responses[2].tag = "ResponseDeleteRange"
  /\ log[1].resp.Responses[2].resp.PrevKvs # <<>>
  /\ Len(stdout) >= 6

\* C2: a sub-result of a transaction that is neither a Delete, a Put nor a Get
\* gets a diagnostic line and does not end the dispatch: wherever it stands,
\* every sub-result after it is still formatted, in order, after its own blank
\* line.
C2_UnknownDoesNotStop ==
  Called("Txn") =>
    LET rs == log[1].resp.Responses
    IN  \A i \in 1..Len(rs) :
          ~Recognized(rs[i]) =>
            /\ BlockAt(rs, i)
            /\ \A j \in (i + 1)..Len(rs) : BlockAt(rs, j)

\* a transaction whose first sub-result is unrecognized and whose second is a
\* Put with a previous entry
C2_Witness ==
  /\ Called("Txn")
  /\ Len(log[1].resp.Responses) = 2
  /\ ~Recognized(log[1].resp.Responses[1])
  /\ log[1].resp.Responses[2].tag = "ResponsePut"
  /\ log[1].resp.Responses[2].resp.PrevKv # <<>>
  /\ stdout[Len(stdout)] # <<>>

\* the endpoints of the health checks made so far, in the order they were given
CheckedEps ==
  Flatten([i \in 1..Len(log) |->
             IF log[i].kind = "EndpointHealth" THEN log[i].hs ELSE <<>>])

FailedEps == SelectSeq(CheckedEps, LAMBDA h : h.Error # <<>>)

HealthyEps == SelectSeq(CheckedEps, LAMBDA h : h.Error = <<>>)

IsHealthLine(l) == Contains(l, <<32, 105, 115, 32, 104, 101, 97, 108, 116, 104, 121, 58, 32>> (* " is healthy: " *)) \/ Contains(l, <<32, 105, 115, 32, 117, 110, 104, 101, 97, 108, 116, 104, 121, 58, 32>> (* " is unhealthy: " *))

\* C3: after any sequence of calls the error stream holds exactly one line for
\* each checked endpoint whose error string is not empty, and nothing else;
\* each endpoint with an empty error string has exactly one line on standard
\* output and none on the error stream; a failing endpoint of a batch changes
\* neither the stream nor the presence of the line of any other endpoint; no
\* other method writes to the error stream.
C3_ErrorStreamIsFailedEndpoints ==
  LET okLines == SelectSeq(stdout, IsHealthLine)
  IN  /\ Len(stderr) = Len(FailedEps)
      /\ \A i \in 1..Len(FailedEps) :
           /\ IsPrefix(FailedEps[i].Ep \o <<32, 105, 115, 32, 117, 110, 104, 101, 97, 108, 116, 104, 121, 58, 32>> (* " is unhealthy: " *), stderr[i])
           /\ IsSuffix(FailedEps[i].Error, stderr[i])
      /\ Len(okLines) = Len(HealthyEps)
      /\ \A i \in 1..Len(HealthyEps) :
           /\ IsPrefix(HealthyEps[i].Ep \o <<32, 105, 115, 32, 104, 101, 97, 108, 116, 104, 121, 58, 32>> (* " is healthy: " *), okLines[i])
           /\ IsSuffix(HealthyEps[i].Took, okLines[i])

\* a batch of a failing endpoint followed by a healthy one, after a call of
\* another method
C3_Witness ==
  /\ Len(log) = 2
  /\ log[1].kind = "Txn"
  /\ log[2].kind = "EndpointHealth"
  /\ Len(log[2].hs) = 2
  /\ log[2].hs[1].Error # <<>>
  /\ log[2].hs[2].Error = <<>>
  /\ Len(stderr) = 1
  /\ Len(stdout) > 1

\* the lease of the call is in the expired branch
Expired(resp) == resp.GrantedTTL = 0 /\ resp.TTL = -1

\* C4: TimeToLive writes exactly one line for every input.  When GrantedTTL is
\* 0 and TTL is -1 it is the "already expired" line, with neither TTL number
\* nor a key list, also when the key list is requested; in every other case
\* (GrantedTTL = 0 with another TTL, TTL = -1 with another GrantedTTL included)
\* the line carries the granted and the remaining TTL and no "expired" text.
C4_TimeToLiveOneLine ==
  Called("TimeToLive") =>
    LET resp == log[1].resp
    IN  /\ Len(stdout) = 1
        /\ stderr = <<>>
        /\ IF Expired(resp)
           THEN /\ Contains(stdout[1], <<97, 108, 114, 101, 97, 100, 121, 32, 101, 120, 112, 105, 114, 101, 100>> (* "already expired" *))
                /\ ~Contains(stdout[1], <<84, 84, 76, 40>> (* "TTL(" *))
                /\ ~Contains(stdout[1], <<114, 101, 109, 97, 105, 110, 105, 110, 103, 40>> (* "remaining(" *))
                /\ ~Contains(stdout[1], <<97, 116, 116, 97, 99, 104, 101, 100, 32, 107, 101, 121, 115>> (* "attached keys" *))
           ELSE /\ Contains(stdout[1], <<103, 114, 97, 110, 116, 101, 100, 32, 119, 105, 116, 104, 32, 84, 84, 76, 40>> (* "granted with TTL(" *) \o Dec(resp.GrantedTTL) \o <<115, 41>> (* "s)" *))
                /\ Contains(stdout[1], <<114, 101, 109, 97, 105, 110, 105, 110, 103, 40>> (* "remaining(" *) \o Dec(resp.TTL) \o <<115, 41>> (* "s)" *))
                /\ ~Contains(stdout[1], <<101, 120, 112, 105, 114, 101, 100>> (* "expired" *))

\* an expired lease with attached keys, the key list requested
C4_Witness ==
  /\ Called("TimeToLive")
  /\ Expired(log[1].resp)
  /\ log[1].keys
  /\ log[1].resp.Keys # <<>>
  /\ Len(stdout) = 1

\* the line ends with the key list, the keys separated by sep, right after the
\* remaining TTL
EndsWithKeyList(line, ks, sep) ==
  IsSuffix(<<115, 41, 44, 32, 97, 116, 116, 97, 99, 104, 101, 100, 32, 107, 101, 121, 115, 40>> (* "s), attached keys(" *) \o <<91>> (* "[" *) \o Join(ks, sep) \o <<93>> (* "]" *) \o <<41>> (* ")" *), line)

\* the line ends with the remaining TTL and has no key list
NoKeyList(line) == IsSuffix(<<115, 41>> (* "s)" *), line) /\ ~Contains(line, <<97, 116, 116, 97, 99, 104, 101, 100, 32, 107, 101, 121, 115>> (* "attached keys" *))

\* C9 as the spec has it: when the key list is requested and the lease is not
\* in the expired branch, the attached keys are appended between brackets,
\* separated by commas, as raw text in input order, the same under either
\* hex flag; when it is not requested no key list is appended.
C9_KeysCommaSeparated ==
  (Called("TimeToLive") /\ ~Expired(log[1].resp)) =>
    IF log[1].keys
    THEN \E sep \in {<<44>> (* "," *), <<44, 32>> (* ", " *)} : EndsWithKeyList(stdout[1], log[1].resp.Keys, sep)
    ELSE NoKeyList(stdout[1])

\* C9, amended: the attached keys are appended between brackets, separated by
\* single spaces (no commas), as raw text in input order, the same under
\* either hex flag; when the key list is not requested none is appended.
C9_KeysSpaceSeparated ==
  (Called("TimeToLive") /\ ~Expired(log[1].resp)) =>
    IF log[1].keys
    THEN EndsWithKeyList(stdout[1], log[1].resp.Keys, <<32>> (* " " *))
    ELSE NoKeyList(stdout[1])

\* two attached keys, one of them not printable, listed by a printer in hex mode
C9_Witness ==
  /\ Called("TimeToLive")
  /\ ~Expired(log[1].resp)
  /\ log[1].keys
  /\ isHex
  /\ Len(log[1].resp.Keys) = 2
  /\ log[1].resp.Keys[2] = <<255>>
  /\ Contains(stdout[1], <<97, 116, 116, 97, 99, 104, 101, 100, 32, 107, 101, 121, 115, 40>> (* "attached keys(" *))

\* The layout of the output of a call that carries key/value entries, read
\* off its input: one element per line written when key lines are not
\* suppressed, saying whether the line is a key, a value or fixed text.
Fixed == [class |-> "fixed", data |-> <<>>]

KvLayout(kvs) ==
  Flatten([i \in 1..Len(kvs) |-> <<[class |-> "key", data |-> kvs[i].key],
                                   [class |-> "value", data |-> kvs[i].value]>>])

SubResultLayout(r) ==
  CASE r.tag = "ResponseDeleteRange" -> <<Fixed, Fixed>> \o KvLayout(r.resp.PrevKvs)
    [] r.tag = "ResponsePut" -> <<Fixed, Fixed>> \o KvLayout(r.resp.PrevKv)
    [] r.tag = "ResponseRange" -> <<Fixed>> \o KvLayout(r.resp.Kvs)
    [] OTHER -> <<Fixed, Fixed>>

Layout(call) ==
  CASE call.kind = "Del" -> <<Fixed>> \o KvLayout(call.resp.PrevKvs)
    [] call.kind = "Get" -> KvLayout(call.resp.Kvs)
    [] call.kind = "Put" -> <<Fixed>> \o KvLayout(call.resp.PrevKv)
    [] call.kind = "Watch" ->
         Flatten([i \in 1..Len(call.resp.Events) |->
                    <<Fixed>> \o KvLayout(call.resp.Events[i].PrevKv) \o
                    KvLayout(<<call.resp.Events[i].Kv>>)])
    [] call.kind = "Txn" ->
         <<Fixed>> \o
         Flatten([i \in 1..Len(call.resp.Responses) |->
                    SubResultLayout(call.resp.Responses[i])])

\* what the call writes on a printer with the hex flag of this one and the
\* given valueOnly flag
OutputWith(call, vo) ==
  LET p == [isHex |-> isHex, valueOnly |-> vo]
  IN  CASE call.kind = "Del" -> Del(p, call.resp)
        [] call.kind = "Get" -> Get(p, call.resp)
        [] call.kind = "Put" -> Put(p, call.resp)
        [] call.kind = "Watch" -> Watch(p, call.resp)
        [] call.kind = "Txn" -> Txn(p, call.resp)

CarriesKvs == log # <<>> /\ log[1].kind \in {"Del", "Get", "Put", "Watch", "Txn"}

\* C5: for Get, Del, Put with a previous entry, Watch, and these nested in
\* Txn, under either hex flag, the output with valueOnly set is the output
\* with valueOnly clear with exactly the key line of each entry removed: value
\* lines, the count of Del, OK, the event types, SUCCESS or FAILURE and the
\* blank lines are unchanged and in the same order.
C5_ValueOnlyDropsKeyLines ==
  CarriesKvs =>
    LET full == OutputWith(log[1], FALSE)
        lay == Layout(log[1])
        keyAt == {i \in 1..Len(lay) : lay[i].class = "key"}
    IN  /\ Len(full) = Len(lay)
        /\ \A i \in keyAt : full[i] = encode(isHex, lay[i].data)
        /\ valueOnly => stdout = RemoveAt(full, keyAt)
        /\ ~valueOnly => stdout = full

\* a watch event with a previous entry on a printer with valueOnly set
C5_Witness ==
  /\ Called("Watch")
  /\ valueOnly
  /\ Len(log[1].resp.Events) = 2
  /\ log[1].resp.Events[1].PrevKv # <<>>
  /\ Len(stdout) = 5

\* the lines of stdout are the lines of the layout, each key and each value
\* rendered by the encoder under the flags of the printer
KvsEncoded ==
  LET lay == Layout(log[1])
      shown == SelectSeq(lay, LAMBDA l : ~(valueOnly /\ l.class = "key"))
  IN  /\ Len(stdout) = Len(shown)
      /\ \A i \in 1..Len(shown) :
           shown[i].class # "fixed" =>
             stdout[i] = (IF isHex THEN HexEncode(shown[i].data) ELSE shown[i].data)

\* the positions, in Perm, of the entries of the read and of the write listing
ReadIdx(perms) ==
  SelectSeq([i \in 1..Len(perms) |-> i],
            LAMBDA i : perms[i].PermType \in {PermRead, PermReadWrite})

WriteIdx(perms) ==
  SelectSeq([i \in 1..Len(perms) |-> i],
            LAMBDA i : perms[i].PermType \in {PermWrite, PermReadWrite})

\* RoleGet was called and did not take the branch of the root role without
\* permissions
Listed == Called("RoleGet") /\ ~(log[1].role = rootRole /\ log[1].resp.Perm = <<>>)

\* the lines of stdout written for the i-th entry of Perm
EntryLines(perms, i) ==
  {stdout[2 + k] : k \in {k \in 1..Len(ReadIdx(perms)) : ReadIdx(perms)[k] = i}} \cup
  {stdout[3 + Len(ReadIdx(perms)) + k] :
     k \in {k \in 1..Len(WriteIdx(perms)) : WriteIdx(perms)[k] = i}}

\* the line of RoleRevokePermission with key and end rendered by enc
RevokeLine(role, key, end, enc(_)) ==
  IF end = <<>>
  THEN <<80, 101, 114, 109, 105, 115, 115, 105, 111, 110, 32, 111, 102, 32, 107, 101, 121, 32>> (* "Permission of key " *) \o enc(key) \o <<32, 105, 115, 32, 114, 101, 118, 111, 107, 101, 100, 32, 102, 114, 111, 109, 32, 114, 111, 108, 101, 32>> (* " is revoked from role " *) \o role
  ELSE IF end = <<0>>
  THEN <<80, 101, 114, 109, 105, 115, 115, 105, 111, 110, 32, 111, 102, 32, 114, 97, 110, 103, 101, 32, 91>> (* "Permission of range [" *) \o enc(key) \o <<44, 32, 60, 111, 112, 101, 110, 32, 101, 110, 100, 101, 100, 62, 32, 105, 115, 32, 114, 101, 118, 111, 107, 101, 100, 32, 102, 114, 111, 109, 32, 114, 111, 108, 101, 32>> (* ", <open ended> is revoked from role " *) \o role
  ELSE <<80, 101, 114, 109, 105, 115, 115, 105, 111, 110, 32, 111, 102, 32, 114, 97, 110, 103, 101, 32, 91>> (* "Permission of range [" *) \o enc(key) \o <<44, 32>> (* ", " *) \o enc(end) \o
       <<41, 32, 105, 115, 32, 114, 101, 118, 111, 107, 101, 100, 32, 102, 114, 111, 109, 32, 114, 111, 108, 101, 32>> (* ") is revoked from role " *) \o role

\* a line of a listing of RoleGet shows the entry with key and range end
\* rendered by enc
ShowsEntry(line, perm, enc(_)) ==
  IF perm.RangeEnd = <<>> THEN line = <<9>> (* "\t" *) \o enc(perm.Key)
  ELSE IF perm.RangeEnd = <<0>> THEN IsPrefix(<<9, 91>> (* "\t[" *) \o enc(perm.Key) \o <<44, 32, 60, 111, 112, 101, 110, 32, 101, 110, 100, 101, 100, 62>> (* ", <open ended>" *), line)
  ELSE IsPrefix(<<9, 91>> (* "\t[" *) \o enc(perm.Key) \o <<44, 32>> (* ", " *) \o enc(perm.RangeEnd) \o <<41>> (* ")" *), line)

Encoded(bs) == IF isHex THEN HexEncode(bs) ELSE bs

Raw(bs) == bs

\* C8 as the spec has it: every rule that prints a key or a value renders it
\* by the encoder under the flags of the printer, so that in hex mode none is
\* written raw; this covers the keys of RoleGet (bare keys and range bounds)
\* and of RoleRevokePermission as well as Get, Del, Put and Watch.
C8_EveryKeyEncoded ==
  /\ CarriesKvs => KvsEncoded
  /\ Listed =>
       \A i \in 1..Len(log[1].resp.Perm) :
         \A l \in EntryLines(log[1].resp.Perm, i) : ShowsEntry(l, log[1].resp.Perm[i], Encoded)
  /\ Called("RoleRevokePermission") =>
       stdout = <<RevokeLine(log[1].role, log[1].key, log[1].end, Encoded)>>

\* C8, amended: Get, Del, Put and Watch, at top level and nested in Txn,
\* render every key and value by the encoder under the flags of the printer,
\* so that in hex mode none of them is written raw; the keys and range bounds
\* printed by RoleGet and by RoleRevokePermission, like the attached keys of
\* TimeToLive, are always written raw, whatever the hex flag.
C8_KvsEncodedRoleKeysRaw ==
  /\ CarriesKvs => KvsEncoded
  /\ Listed =>
       \A i \in 1..Len(log[1].resp.Perm) :
         \A l \in EntryLines(log[1].resp.Perm, i) : ShowsEntry(l, log[1].resp.Perm[i], Raw)
  /\ Called("RoleRevokePermission") =>
       stdout = <<RevokeLine(log[1].role, log[1].key, log[1].end, Raw)>>
  /\ (Called("TimeToLive") /\ ~Expired(log[1].resp) /\ log[1].keys) =>
       EndsWithKeyList(stdout[1], log[1].resp.Keys, <<32>> (* " " *))

\* a Get of an entry that is not printable text, on a printer in hex mode that
\* prints keys
C8_Witness ==
  /\ Called("Get")
  /\ isHex
  /\ ~valueOnly
  /\ Len(log[1].resp.Kvs) = 2
  /\ log[1].resp.Kvs[2].key = <<255, 97>>
  /\ stdout[3] = <<102, 102, 54, 49>> (* "ff61" *)

\* e is the prefix successor of key: key up to its last byte that is not
\* 0xFF, that byte incremented, the 0xFF bytes after it dropped
IsPrefixSuccessor(key, e) ==
  \E i \in 1..Len(key) :
    /\ key[i] < 255
    /\ \A j \in (i + 1)..Len(key) : key[j] = 255
    /\ e = [k \in 1..i |-> IF k < i THEN key[k] ELSE key[i] + 1]

HasPrefixSuffix(line, key) == IsSuffix(<<32, 40, 112, 114, 101, 102, 105, 120, 32>> (* " (prefix " *) \o key \o <<41>> (* ")" *), line)

\* C6: for every permission entry with a non-empty RangeEnd listed by RoleGet,
\* the line has the suffix " (prefix <key>)" if and only if the key is not
\* empty and RangeEnd is the prefix successor of the key; an entry with any
\* other bound is written "[<key>, <rangeEnd>)" without a suffix.
C6_PrefixSuffixIffSuccessor ==
  Listed =>
    \A i \in 1..Len(log[1].resp.Perm) :
      LET perm == log[1].resp.Perm[i]
          isPrefix == perm.Key # <<>> /\ IsPrefixSuccessor(perm.Key, perm.RangeEnd)
      IN  perm.RangeEnd # <<>> =>
            /\ EntryLines(log[1].resp.Perm, i) # {}
            /\ \A l \in EntryLines(log[1].resp.Perm, i) :
                 /\ HasPrefixSuffix(l, perm.Key) <=> isPrefix
                 /\ Contains(l, <<40, 112, 114, 101, 102, 105, 120>> (* "(prefix" *)) <=> isPrefix
                 /\ (~isPrefix /\ perm.RangeEnd # <<0>>) =>
                      l = <<9>> (* "\t" *) \o <<91>> (* "[" *) \o perm.Key \o <<44, 32>> (* ", " *) \o perm.RangeEnd \o <<41>> (* ")" *)

\* the entry [a 0xFF, b): the range end is the prefix successor of a key that
\* ends in 0xFF
C6_Witness ==
  /\ Listed
  /\ Len(log[1].resp.Perm) = 1
  /\ log[1].resp.Perm[1].Key = <<97, 255>>
  /\ log[1].resp.Perm[1].RangeEnd = <<98>>
  /\ log[1].resp.Perm[1].PermType = PermReadWrite
  /\ HasPrefixSuffix(stdout[3], <<97, 255>>)
  /\ HasPrefixSuffix(stdout[5], <<97, 255>>)

AllFF(key) == key # <<>> /\ \A i \in 1..Len(key) : key[i] = 255

\* C7: the line of an open-ended range (RangeEnd the one NUL byte) is
\* "[<key>, <open ended>", after the tab that indents the listing, with no
\* closing ")" and no "(prefix ...)" after it, for every key; and a key made
\* of 0xFF bytes only never gets the "(prefix ...)" suffix, whatever its
\* RangeEnd.
C7_OpenEndedAndAllFF ==
  Listed =>
    \A i \in 1..Len(log[1].resp.Perm) :
      LET perm == log[1].resp.Perm[i]
      IN  \A l \in EntryLines(log[1].resp.Perm, i) :
            /\ perm.RangeEnd = <<0>> => l = <<9>> (* "\t" *) \o <<91>> (* "[" *) \o perm.Key \o <<44, 32, 60, 111, 112, 101, 110, 32, 101, 110, 100, 101, 100, 62>> (* ", <open ended>" *)
            /\ AllFF(perm.Key) => ~Contains(l, <<40, 112, 114, 101, 102, 105, 120>> (* "(prefix" *))

\* the open-ended range of the key 0xFF 0xFF
C7_Witness ==
  /\ Listed
  /\ Len(log[1].resp.Perm) = 1
  /\ log[1].resp.Perm[1].Key = <<255, 255>>
  /\ log[1].resp.Perm[1].RangeEnd = <<0>>
  /\ log[1].resp.Perm[1].PermType = PermRead
  /\ Len(stdout) = 4

\* C10: RoleGet on a role with a permission list writes "KV Read:", one line
\* per entry of kind Read or ReadWrite in input order, "KV Write:", and one
\* line per entry of kind Write or ReadWrite in input order: a ReadWrite
\* entry is in both listings once, a Read entry in the read listing only, a
\* Write entry in the write listing only; in both an entry with an empty
\* RangeEnd is the bare key and any other goes through the range formatter.
C10_RoleGetListings ==
  Listed =>
    LET perms == log[1].resp.Perm
        kindOf(i) == perms[i].PermType
        nr == Cardinality({i \in 1..Len(perms) : kindOf(i) # PermWrite})
        nw == Cardinality({i \in 1..Len(perms) : kindOf(i) # PermRead})
        \* the number of entries before the i-th that pass the filter
        before(i, skip) == Cardinality({j \in 1..(i - 1) : kindOf(j) # skip})
        shows(l, perm) ==
          IF perm.RangeEnd = <<>> THEN l = <<9>> (* "\t" *) \o perm.Key
          ELSE IsPrefix(<<9>> (* "\t" *) \o <<91>> (* "[" *) \o perm.Key \o <<44, 32>> (* ", " *), l)
    IN  /\ Len(stdout) = 3 + nr + nw
        /\ stdout[2] = <<75, 86, 32, 82, 101, 97, 100, 58>> (* "KV Read:" *)
        /\ stdout[3 + nr] = <<75, 86, 32, 87, 114, 105, 116, 101, 58>> (* "KV Write:" *)
        /\ \A i \in 1..Len(perms) :
             /\ kindOf(i) # PermWrite => shows(stdout[3 + before(i, PermWrite)], perms[i])
             /\ kindOf(i) # PermRead => shows(stdout[4 + nr + before(i, PermRead)], perms[i])

\* a Write entry with a single key before a ReadWrite entry with a range
C10_Witness ==
  /\ Listed
  /\ Len(log[1].resp.Perm) = 2
  /\ log[1].resp.Perm[1].PermType = PermWrite
  /\ log[1].resp.Perm[1].RangeEnd = <<>>
  /\ log[1].resp.Perm[2].PermType = PermReadWrite
  /\ log[1].resp.Perm[2].RangeEnd # <<>>
  /\ Len(stdout) = 6

=============================================================================
